---- MODULE Spec2Model ----
(***************************************************************************)
(* Model of the drawdown-DCA backtester (src/src/utils/calculator.ts) and  *)
(* of the genetic strategy optimizer (src/src/utils/optimizer.ts).         *)
(*                                                                         *)
(* Numbers: every JavaScript number that is not a timestamp or an index is *)
(* modelled as an exact rational <<n, d>> in lowest terms with d > 0, so   *)
(* that two equal quantities are equal values. Timestamps are integers in  *)
(* milliseconds, as in the code.                                           *)
(***************************************************************************)
EXTENDS Integers, Sequences, FiniteSets, TLC

VARIABLES
    prices,             \* runBacktest argument: raw PriceDataPoint[]
    config,             \* runBacktest argument: BacktestConfig
    tiers,              \* runBacktest argument: DrawdownTier[]
    pc,                 \* position inside runBacktest
    dailyPrices,        \* const dailyPrices
    k,                  \* number of points of dailyPrices the for-of loop has consumed
    runningAth,         \* let runningAth
    remainingCash,      \* let remainingCash
    totalCoins,         \* let totalCoins
    totalInvested,      \* let totalInvested
    maxDrawdown,        \* let maxDrawdown
    fundsDepleted,      \* let fundsDepleted
    fundsDepletedDate,  \* let fundsDepletedDate: <<>> is undefined, <<t>> is new Date(t)
    drawdown,           \* const drawdown of the latest loop iteration
    trades,             \* const trades
    result,             \* the returned BacktestResult, <<>> before the return
    gmDrawdown,         \* getMultiplier argument (resolver specification)
    gmTiers,            \* getMultiplier argument (resolver specification)
    gmResult,           \* getMultiplier return value, <<>> before the call
    gaPc,               \* position inside runGeneticOptimizer
    population,         \* let population
    nextGen,            \* const nextGen
    gen,                \* let gen
    batchStart,         \* let i of the batch loop (0-based, as in the code)
    progress,           \* the calls made to onProgress: <<progress, generation>>
    gaResult,           \* the resolved OptimizationResult, <<>> before
    aggregations,       \* calls of aggregateDailyPrices made during runGeneticOptimizer
    evaluations,        \* calls of runBacktest made during runGeneticOptimizer
    yields,             \* times runGeneticOptimizer has suspended on the timer of line 150
    timesEvaluated,     \* per position of the population: runBacktest calls this generation
    rankedBest,         \* the fitness of population[0] after each sort of line 159
    evaluatedBest,      \* the highest fitness any evaluation has assigned so far
    mutGenome,          \* mutate argument (mutation specification)
    mutDraws,           \* the values of the two Math.random() calls of mutate
    mutResult,          \* the genome after mutate, <<>> before the call
    rtData,             \* RealTimeCalculator's data state: <<>> for null, else <<price, ath>>
    rtResult,           \* what a render of RealTimeCalculator computed, <<>> before it
    isLoading,          \* App state
    isLoadingChart,     \* App state
    error,              \* App state: TRUE when an error message is set, FALSE for null
    pricesState,        \* App state prices: <<>> for [], else <<[coin, range]>>
    resultState,        \* App state result: <<>> for null, else <<coin>>
    coinId,             \* ControlPanel state: the selected coin
    pending,            \* the fetchPriceHistory calls that have not settled
    issued,             \* the number of fetchPriceHistory calls made
    rejected            \* TRUE once a fetchPriceHistory call has thrown

btVars == <<prices, config, tiers, pc, dailyPrices, k, runningAth, remainingCash,
            totalCoins, totalInvested, maxDrawdown, fundsDepleted, fundsDepletedDate,
            drawdown, trades, result>>
gmVars == <<gmDrawdown, gmTiers, gmResult>>
gaVars == <<gaPc, population, nextGen, gen, batchStart, progress, gaResult,
            aggregations, evaluations, yields, timesEvaluated, rankedBest,
            evaluatedBest>>
mutVars == <<mutGenome, mutDraws, mutResult>>
rtVars == <<rtData, rtResult>>
appVars == <<isLoading, isLoadingChart, error, pricesState, resultState, coinId,
             pending, issued, rejected>>
extVars == <<mutVars, rtVars, appVars>>
vars == <<btVars, gmVars, gaVars, extVars>>

\* App and ControlPanel after the first render: useState(false), useState(null),
\* useState([]) and the saved coin.
AppAtRest ==
    /\ isLoading = FALSE
    /\ isLoadingChart = FALSE
    /\ error = FALSE
    /\ pricesState = <<>>
    /\ resultState = <<>>
    /\ coinId = "bitcoin"
    /\ pending = {}
    /\ issued = 0
    /\ rejected = FALSE

----------------------------------------------------------------------------
(* Exact rational arithmetic standing for JavaScript number arithmetic.    *)

RECURSIVE Gcd(_, _)
Gcd(a, b) == IF b = 0 THEN a ELSE Gcd(b, a % b)

Abs(x) == IF x < 0 THEN -x ELSE x

\* n/d in lowest terms, d > 0.
Rat(n, d) ==
    LET g == Gcd(Abs(n), Abs(d))
        s == IF d < 0 THEN -1 ELSE 1
    IN  <<(s * n) \div g, (s * d) \div g>>

Num(x) == x[1]
Den(x) == x[2]
Zero == Rat(0, 1)
One == Rat(1, 1)
Hundred == Rat(100, 1)

RAdd(x, y) == Rat(Num(x) * Den(y) + Num(y) * Den(x), Den(x) * Den(y))
RSub(x, y) == Rat(Num(x) * Den(y) - Num(y) * Den(x), Den(x) * Den(y))
RMul(x, y) == Rat(Num(x) * Num(y), Den(x) * Den(y))
RDiv(x, y) == Rat(Num(x) * Den(y), Den(x) * Num(y))
RLt(x, y) == Num(x) * Den(y) < Num(y) * Den(x)
RLe(x, y) == Num(x) * Den(y) <= Num(y) * Den(x)
RMax(x, y) == IF RLt(x, y) THEN y ELSE x
RMin(x, y) == IF RLt(y, x) THEN y ELSE x

----------------------------------------------------------------------------
(* calculator.ts: getMultiplier                                            *)

\* Array.prototype.sort with comparator (a, b) => a.threshold - b.threshold:
\* a stable ascending sort, computed as a stable insertion sort.
RECURSIVE InsertTier(_, _)
InsertTier(t, sorted) ==
    IF sorted = <<>> THEN <<t>>
    ELSE IF RLt(t.threshold, Head(sorted).threshold)
         THEN <<t>> \o sorted
         ELSE <<Head(sorted)>> \o InsertTier(t, Tail(sorted))

RECURSIVE SortTiersFrom(_, _)
SortTiersFrom(ts, acc) ==
    IF ts = <<>> THEN acc
    ELSE SortTiersFrom(Tail(ts), InsertTier(Head(ts), acc))

\* const sortedTiers = [...tiers].sort(...)
SortTiers(ts) == SortTiersFrom(ts, <<>>)

\* for (const tier of sortedTiers) if (tier.threshold >= drawdown) return tier.multiplier
RECURSIVE FirstCovering(_, _)
FirstCovering(dd, sorted) ==
    IF sorted = <<>> THEN One
    ELSE IF RLe(dd, Head(sorted).threshold)
         THEN Head(sorted).multiplier
         ELSE FirstCovering(dd, Tail(sorted))

getMultiplierUnsorted(dd, ts) == FirstCovering(dd, ts)
getMultiplier(dd, ts) == FirstCovering(dd, SortTiers(ts))

----------------------------------------------------------------------------
(* calculator.ts: aggregateDailyPrices                                     *)

MS_PER_DAY == 24 * 60 * 60 * 1000

\* new Date(point.timestamp).toISOString().split('T')[0]: the UTC calendar day,
\* identified by its day number since the epoch.
dateKey(timestamp) == timestamp \div MS_PER_DAY

\* dailyMap.set(dateKey, point): a Map keeps a key at the position of its first
\* insertion and replaces its value on a later set.
RECURSIVE MapSet(_, _, _)
MapSet(entries, key, value) ==
    IF entries = <<>> THEN <<[key |-> key, value |-> value]>>
    ELSE IF Head(entries).key = key
         THEN <<[key |-> key, value |-> value]>> \o Tail(entries)
         ELSE <<Head(entries)>> \o MapSet(Tail(entries), key, value)

RECURSIVE DailyMap(_, _)
DailyMap(ps, entries) ==
    IF ps = <<>> THEN entries
    ELSE DailyMap(Tail(ps), MapSet(entries, dateKey(Head(ps).timestamp), Head(ps)))

\* .sort((a, b) => a.timestamp - b.timestamp), stable
RECURSIVE InsertPoint(_, _)
InsertPoint(p, sorted) ==
    IF sorted = <<>> THEN <<p>>
    ELSE IF p.timestamp < Head(sorted).timestamp
         THEN <<p>> \o sorted
         ELSE <<Head(sorted)>> \o InsertPoint(p, Tail(sorted))

RECURSIVE SortPointsFrom(_, _)
SortPointsFrom(ps, acc) ==
    IF ps = <<>> THEN acc
    ELSE SortPointsFrom(Tail(ps), InsertPoint(Head(ps), acc))

aggregateDailyPricesUnsorted(ps) ==
    LET entries == DailyMap(ps, <<>>)
    IN  [j \in 1..Len(entries) |-> entries[j].value]
aggregateDailyPrices(ps) ==
    LET entries == DailyMap(ps, <<>>)
        values == [j \in 1..Len(entries) |-> entries[j].value]
    IN  SortPointsFrom(values, <<>>)

\* What the caller's arrays hold after a call. getMultiplier sorts [...tiers], a
\* copy (line 28), and aggregateDailyPrices reads prices with for...of and sorts
\* Array.from(dailyMap.values()), a new array (lines 46-56).
tiersArgumentSortedInPlace(ts) == SortTiers(ts)
tiersArgumentAfter(ts) == ts
pricesArgumentAfter(ps) == ps

----------------------------------------------------------------------------
(* Inputs of the backtest specification.                                   *)

MaxTicks == 3

Days == 0..2
DayOffsets == {0, MS_PER_DAY \div 2}
Timestamps == {d * MS_PER_DAY + o : d \in Days, o \in DayOffsets}
PriceSet == {50, 100}
Ticks == [timestamp : Timestamps, price : PriceSet]
\* The price feed delivers its ticks in chronological order (several per day, and
\* possibly several with one timestamp).
IsChronological(ps) == \A j \in 1..(Len(ps) - 1) : ps[j].timestamp <= ps[j + 1].timestamp
PriceSeries == {ps \in UNION {[1..n -> Ticks] : n \in 0..MaxTicks} : IsChronological(ps)}

StartDates == {0, MS_PER_DAY + MS_PER_DAY \div 2}
EndDates == {MS_PER_DAY + MS_PER_DAY \div 2}
Configs == [startDate : StartDates, endDate : EndDates, initialCapital : {100},
            baseDcaAmount : {30, 60}, dcaFrequency : {1, 2}]

Tier(id, th, m) == [id |-> id, threshold |-> th, multiplier |-> m]
NoTiers == <<>>
ScenarioBTiers == <<Tier("1", Zero, One), Tier("2", Rat(-4, 10), Rat(2, 1))>>
PauseTiers == <<Tier("1", Rat(-4, 10), Zero)>>
TierTables == {NoTiers, ScenarioBTiers, PauseTiers}

----------------------------------------------------------------------------
(* calculator.ts: runBacktest                                              *)

Init ==
    /\ prices \in PriceSeries
    /\ config \in Configs
    /\ tiers \in TierTables
    /\ pc = "start"
    /\ dailyPrices = <<>>
    /\ k = 0
    /\ runningAth = Zero
    /\ remainingCash = Zero
    /\ totalCoins = Zero
    /\ totalInvested = Zero
    /\ maxDrawdown = Zero
    /\ fundsDepleted = FALSE
    /\ fundsDepletedDate = <<>>
    /\ drawdown = Zero
    /\ trades = <<>>
    /\ result = <<>>
    /\ gmDrawdown = Zero
    /\ gmTiers = <<>>
    /\ gmResult = <<>>
    /\ gaPc = "idle"
    /\ population = <<>>
    /\ nextGen = <<>>
    /\ gen = 0
    /\ batchStart = 0
    /\ progress = <<>>
    /\ gaResult = <<>>
    /\ aggregations = 0
    /\ evaluations = 0
    /\ yields = 0
    /\ timesEvaluated = <<>>
    /\ rankedBest = <<>>
    /\ mutGenome = <<>>
    /\ mutDraws = <<>>
    /\ mutResult = <<>>
    /\ rtData = <<>>
    /\ rtResult = <<>>
    /\ AppAtRest
    /\ evaluatedBest = <<-1, 0>>

\* Lines 69-83: aggregate and initialise the running state.
Aggregate ==
    /\ pc = "start"
    /\ dailyPrices' = aggregateDailyPrices(prices)
    /\ remainingCash' = Rat(config.initialCapital, 1)
    /\ pc' = "loop"
    /\ prices' = pricesArgumentAfter(prices)
    /\ UNCHANGED <<config, tiers, k, runningAth, totalCoins, totalInvested,
                   maxDrawdown, fundsDepleted, fundsDepletedDate, drawdown, trades,
                   result, gmVars, gaVars,
                   extVars>>

\* runningAth = Math.max(runningAth, currentPrice)
athAfterLatest(ath, price) == price
athAfter(ath, price) == RMax(ath, price)

\* const drawdown = runningAth > 0 ? (currentPrice - runningAth) / runningAth : 0
drawdownOf(ath, price) ==
    IF RLt(Zero, ath) THEN RDiv(RSub(price, ath), ath) ELSE Zero

\* Math.floor((pricePoint.timestamp - startTimestamp) / (24 * 60 * 60 * 1000))
daysSinceStartOf(timestamp, startTimestamp) == (timestamp - startTimestamp) \div MS_PER_DAY

\* if (currentDate.getTime() < startTimestamp) continue
inRangeAlways(timestamp, startTimestamp) == TRUE
inRange(timestamp, startTimestamp) == ~(timestamp < startTimestamp)

\* maxDrawdown = Math.min(maxDrawdown, drawdown)
maxDrawdownAfter(md, dd) == RMin(md, dd)

\* const isDcaDay = daysSinceStart >= 0 && daysSinceStart % config.dcaFrequency === 0
isDcaDayEveryDay(timestamp, cfg) == daysSinceStartOf(timestamp, cfg.startDate) >= 0
isDcaDayOf(timestamp, cfg) ==
    LET daysSinceStart == daysSinceStartOf(timestamp, cfg.startDate)
    IN  daysSinceStart >= 0 /\ daysSinceStart % cfg.dcaFrequency = 0

\* const actualBuyAmount = insufficientFunds ? Math.max(0, remainingCash) : buyAmount
actualBuyAmountUnclamped(insufficientFunds, cash, buyAmount) == buyAmount
actualBuyAmountSkipped(insufficientFunds, cash, buyAmount) ==
    IF insufficientFunds THEN Zero ELSE buyAmount
actualBuyAmountOf(insufficientFunds, cash, buyAmount) ==
    IF insufficientFunds THEN RMax(Zero, cash) ELSE buyAmount

\* if (insufficientFunds && !fundsDepleted) { fundsDepleted = true; fundsDepletedDate = currentDate }
depletedDateLatest(insufficientFunds, depleted, depletedDate, currentDate) ==
    IF insufficientFunds THEN <<currentDate>> ELSE depletedDate
depletedDateAfter(insufficientFunds, depleted, depletedDate, currentDate) ==
    IF insufficientFunds /\ ~depleted THEN <<currentDate>> ELSE depletedDate

\* The running state of the loop, lines 72-80.
loopState(ath, cash, coins, invested, md, depleted, depletedDate, dd, trs) ==
    [runningAth |-> ath, remainingCash |-> cash, totalCoins |-> coins,
     totalInvested |-> invested, maxDrawdown |-> md, fundsDepleted |-> depleted,
     fundsDepletedDate |-> depletedDate, drawdown |-> dd, trades |-> trs]

\* The body of for (const pricePoint of dailyPrices), lines 86-155, as a function
\* of the running state s.
processPoint(s, pricePoint, cfg, ts) ==
    LET currentDate == pricePoint.timestamp
        currentPrice == Rat(pricePoint.price, 1)
        ath == athAfter(s.runningAth, currentPrice)
        dd == drawdownOf(ath, currentPrice)
        seen == [s EXCEPT !.runningAth = ath, !.drawdown = dd]
    IN  IF ~inRange(currentDate, cfg.startDate) THEN seen
        ELSE LET md == maxDrawdownAfter(s.maxDrawdown, dd) IN
             IF ~isDcaDayOf(currentDate, cfg) THEN [seen EXCEPT !.maxDrawdown = md]
             ELSE LET multiplier == getMultiplier(dd, ts)
                      buyAmount == RMul(Rat(cfg.baseDcaAmount, 1), multiplier)
                      insufficientFunds == RLt(s.remainingCash, buyAmount)
                      actualBuyAmount ==
                          actualBuyAmountOf(insufficientFunds, s.remainingCash, buyAmount)
                      coinsBought == RDiv(actualBuyAmount, currentPrice)
                      bought == RLt(Zero, actualBuyAmount)
                      cash == IF bought THEN RSub(s.remainingCash, actualBuyAmount)
                              ELSE s.remainingCash
                      coins == IF bought THEN RAdd(s.totalCoins, coinsBought)
                               ELSE s.totalCoins
                      invested == IF bought THEN RAdd(s.totalInvested, actualBuyAmount)
                                  ELSE s.totalInvested
                  IN  loopState(ath, cash, coins, invested, md,
                                s.fundsDepleted \/ insufficientFunds,
                                depletedDateAfter(insufficientFunds, s.fundsDepleted,
                                                  s.fundsDepletedDate, currentDate),
                                dd,
                                Append(s.trades,
                                       [date |-> currentDate,
                                        price |-> currentPrice,
                                        ath |-> ath,
                                        drawdown |-> dd,
                                        multiplier |-> multiplier,
                                        amount |-> actualBuyAmount,
                                        coinsBought |-> coinsBought,
                                        totalCoins |-> coins,
                                        remainingCash |-> cash,
                                        insufficientFunds |-> insufficientFunds]))

\* Lines 157-175: the BacktestResult computed from the final running state.
summaryOfAverageFallsBack(s, daily) ==
    LET lastPrice == IF daily = <<>> THEN Zero ELSE Rat(daily[Len(daily)].price, 1)
        finalValue == RMul(s.totalCoins, lastPrice)
        averagePrice == IF RLt(Zero, s.totalInvested)
                        THEN RDiv(s.totalInvested, s.totalCoins) ELSE lastPrice
        roi == IF RLt(Zero, s.totalInvested)
               THEN RMul(RDiv(RSub(finalValue, s.totalInvested), s.totalInvested), Hundred)
               ELSE Zero
    IN  [trades |-> s.trades,
         totalInvested |-> s.totalInvested,
         totalCoins |-> s.totalCoins,
         averagePrice |-> averagePrice,
         finalValue |-> finalValue,
         roi |-> roi,
         maxDrawdown |-> RMul(s.maxDrawdown, Hundred),
         fundsDepleted |-> s.fundsDepleted,
         fundsDepletedDate |-> s.fundsDepletedDate]
summaryOf(s, daily) ==
    LET lastPrice == IF daily = <<>> THEN Zero ELSE Rat(daily[Len(daily)].price, 1)
        finalValue == RMul(s.totalCoins, lastPrice)
        averagePrice == IF RLt(Zero, s.totalInvested)
                        THEN RDiv(s.totalInvested, s.totalCoins) ELSE Zero
        roi == IF RLt(Zero, s.totalInvested)
               THEN RMul(RDiv(RSub(finalValue, s.totalInvested), s.totalInvested), Hundred)
               ELSE Zero
    IN  [trades |-> s.trades,
         totalInvested |-> s.totalInvested,
         totalCoins |-> s.totalCoins,
         averagePrice |-> averagePrice,
         finalValue |-> finalValue,
         roi |-> roi,
         maxDrawdown |-> RMul(s.maxDrawdown, Hundred),
         fundsDepleted |-> s.fundsDepleted,
         fundsDepletedDate |-> s.fundsDepletedDate]

\* One iteration of the loop.
Iterate ==
    /\ pc = "loop"
    /\ k < Len(dailyPrices)
    /\ LET s == processPoint(loopState(runningAth, remainingCash, totalCoins,
                                       totalInvested, maxDrawdown, fundsDepleted,
                                       fundsDepletedDate, drawdown, trades),
                             dailyPrices[k + 1], config, tiers)
       IN  /\ k' = k + 1
           /\ runningAth' = s.runningAth
           /\ remainingCash' = s.remainingCash
           /\ totalCoins' = s.totalCoins
           /\ totalInvested' = s.totalInvested
           /\ maxDrawdown' = s.maxDrawdown
           /\ fundsDepleted' = s.fundsDepleted
           /\ fundsDepletedDate' = s.fundsDepletedDate
           /\ drawdown' = s.drawdown
           /\ trades' = s.trades
    /\ tiers' = IF /\ inRange(dailyPrices[k + 1].timestamp, config.startDate)
                   /\ isDcaDayOf(dailyPrices[k + 1].timestamp, config)
                THEN tiersArgumentAfter(tiers)
                ELSE tiers
    /\ UNCHANGED <<prices, config, pc, dailyPrices, result, gmVars, gaVars,
                   extVars>>

\* The return once the loop has consumed every point.
Return ==
    /\ pc = "loop"
    /\ k = Len(dailyPrices)
    /\ result' = <<summaryOf(loopState(runningAth, remainingCash, totalCoins,
                                       totalInvested, maxDrawdown, fundsDepleted,
                                       fundsDepletedDate, drawdown, trades),
                             dailyPrices)>>
    /\ pc' = "done"
    /\ UNCHANGED <<prices, config, tiers, dailyPrices, k, runningAth, remainingCash,
                   totalCoins, totalInvested, maxDrawdown, fundsDepleted,
                   fundsDepletedDate, drawdown, trades, gmVars, gaVars,
                   extVars>>

Next == Aggregate \/ Iterate \/ Return

Spec == Init /\ [][Next]_vars

----------------------------------------------------------------------------
(* runBacktest with and without capital.                                   *)

AnyCapitalConfigs ==
    [startDate : StartDates, endDate : EndDates, initialCapital : {0, 100},
     baseDcaAmount : {30}, dcaFrequency : {1, 2}]

InitAnyCapital ==
    /\ prices \in PriceSeries
    /\ config \in AnyCapitalConfigs
    /\ tiers \in TierTables
    /\ pc = "start"
    /\ dailyPrices = <<>>
    /\ k = 0
    /\ runningAth = Zero
    /\ remainingCash = Zero
    /\ totalCoins = Zero
    /\ totalInvested = Zero
    /\ maxDrawdown = Zero
    /\ fundsDepleted = FALSE
    /\ fundsDepletedDate = <<>>
    /\ drawdown = Zero
    /\ trades = <<>>
    /\ result = <<>>
    /\ gmDrawdown = Zero
    /\ gmTiers = <<>>
    /\ gmResult = <<>>
    /\ gaPc = "idle"
    /\ population = <<>>
    /\ nextGen = <<>>
    /\ gen = 0
    /\ batchStart = 0
    /\ progress = <<>>
    /\ gaResult = <<>>
    /\ aggregations = 0
    /\ evaluations = 0
    /\ yields = 0
    /\ timesEvaluated = <<>>
    /\ rankedBest = <<>>
    /\ mutGenome = <<>>
    /\ mutDraws = <<>>
    /\ mutResult = <<>>
    /\ rtData = <<>>
    /\ rtResult = <<>>
    /\ AppAtRest
    /\ evaluatedBest = <<-1, 0>>

SpecAnyCapital == InitAnyCapital /\ [][Next]_vars

----------------------------------------------------------------------------
(* The aggregator on its own: aggregateDailyPrices applied to raw ticks in *)
(* any order.                                                              *)

RawSeries == UNION {[1..n -> Ticks] : n \in 0..MaxTicks}

InitAggregator ==
    /\ prices \in RawSeries
    /\ pc = "raw"
    /\ dailyPrices = <<>>
    /\ config = [startDate |-> 0, endDate |-> 0, initialCapital |-> 0,
                 baseDcaAmount |-> 0, dcaFrequency |-> 1]
    /\ tiers = <<>>
    /\ k = 0
    /\ runningAth = Zero
    /\ remainingCash = Zero
    /\ totalCoins = Zero
    /\ totalInvested = Zero
    /\ maxDrawdown = Zero
    /\ fundsDepleted = FALSE
    /\ fundsDepletedDate = <<>>
    /\ drawdown = Zero
    /\ trades = <<>>
    /\ result = <<>>
    /\ gmDrawdown = Zero
    /\ gmTiers = <<>>
    /\ gmResult = <<>>
    /\ gaPc = "idle"
    /\ population = <<>>
    /\ nextGen = <<>>
    /\ gen = 0
    /\ batchStart = 0
    /\ progress = <<>>
    /\ gaResult = <<>>
    /\ aggregations = 0
    /\ evaluations = 0
    /\ yields = 0
    /\ timesEvaluated = <<>>
    /\ rankedBest = <<>>
    /\ mutGenome = <<>>
    /\ mutDraws = <<>>
    /\ mutResult = <<>>
    /\ rtData = <<>>
    /\ rtResult = <<>>
    /\ AppAtRest
    /\ evaluatedBest = <<-1, 0>>

CallAggregate ==
    /\ pc = "raw"
    /\ dailyPrices' = aggregateDailyPrices(prices)
    /\ pc' = "aggregated"
    /\ prices' = pricesArgumentAfter(prices)
    /\ UNCHANGED <<config, tiers, k, runningAth, remainingCash, totalCoins,
                   totalInvested, maxDrawdown, fundsDepleted, fundsDepletedDate,
                   drawdown, trades, result, gmVars, gaVars,
                   extVars>>

NextAggregator == CallAggregate

SpecAggregator == InitAggregator /\ [][NextAggregator]_vars

----------------------------------------------------------------------------
(* The tier resolver on its own: getMultiplier applied to drawn arguments. *)

MaxTiers == 2

GmThresholds == {Zero, Rat(-1, 10), Rat(-4, 10), Rat(1, 2)}
GmMultipliers == {One, Rat(12, 10), Rat(2, 1)}
GmDrawdowns == {Zero, Rat(-15, 100), Rat(-1, 2), Rat(-95, 100)}
GmIds == {"a", "b"}
GmTierLists ==
    UNION {[1..n -> [id : GmIds, threshold : GmThresholds, multiplier : GmMultipliers]]
           : n \in 0..MaxTiers}

InitResolver ==
    /\ gmDrawdown \in GmDrawdowns
    /\ gmTiers \in GmTierLists
    /\ gmResult = <<>>
    /\ prices = <<>>
    /\ config = [startDate |-> 0, endDate |-> 0, initialCapital |-> 0,
                 baseDcaAmount |-> 0, dcaFrequency |-> 1]
    /\ tiers = <<>>
    /\ pc = "idle"
    /\ dailyPrices = <<>>
    /\ k = 0
    /\ runningAth = Zero
    /\ remainingCash = Zero
    /\ totalCoins = Zero
    /\ totalInvested = Zero
    /\ maxDrawdown = Zero
    /\ fundsDepleted = FALSE
    /\ fundsDepletedDate = <<>>
    /\ drawdown = Zero
    /\ trades = <<>>
    /\ result = <<>>
    /\ gaPc = "idle"
    /\ population = <<>>
    /\ nextGen = <<>>
    /\ gen = 0
    /\ batchStart = 0
    /\ progress = <<>>
    /\ gaResult = <<>>
    /\ aggregations = 0
    /\ evaluations = 0
    /\ yields = 0
    /\ timesEvaluated = <<>>
    /\ rankedBest = <<>>
    /\ mutGenome = <<>>
    /\ mutDraws = <<>>
    /\ mutResult = <<>>
    /\ rtData = <<>>
    /\ rtResult = <<>>
    /\ AppAtRest
    /\ evaluatedBest = <<-1, 0>>

CallGetMultiplier ==
    /\ gmResult = <<>>
    /\ gmResult' = <<getMultiplier(gmDrawdown, gmTiers)>>
    /\ gmTiers' = tiersArgumentAfter(gmTiers)
    /\ UNCHANGED <<gmDrawdown, btVars, gaVars, extVars>>

NextResolver == CallGetMultiplier

SpecResolver == InitResolver /\ [][NextResolver]_vars

----------------------------------------------------------------------------
(* optimizer.ts: the genome codec.                                         *)
(*                                                                         *)
(* The optimizer's sizes are scaled down so that its state space can be    *)
(* explored: the code has POPULATION_SIZE 500, GENERATIONS 50,             *)
(* ELITISM_COUNT 50, BATCH_SIZE 50 and 16 genes; the proportions that      *)
(* the control flow depends on are kept (several batches per generation,   *)
(* a last batch, a parent pool of more than one genome, at least one child *)
(* per generation, a gene with two neighbours).                            *)

POPULATION_SIZE == 5
GENERATIONS == 2
ELITISM_COUNT == 4
BATCH_SIZE == 2
GENE_COUNT == 3
MUTATION_RATE == Rat(1, 10)

STEPS_MAPPING ==
    << <<-5, -10, -15>>,
       <<-20>>, <<-25>>, <<-30>>, <<-35>>,
       <<-40>>, <<-45>>, <<-50>>, <<-55>>,
       <<-60>>, <<-65>>, <<-70>>, <<-75>>,
       <<-80>>, <<-85>>, <<-90>> >>

\* Math.random() returns a number in [0, 1): the values drawn for it.
Random == {Zero, Rat(1, 2)}
RandomWide == Random \cup {Rat(19, 20)}

\* Math.floor
Floor(x) == Num(x) \div Den(x)

\* Math.round(val * 10) / 10
roundToTenth(val) == Rat(Floor(RAdd(RMul(val, Rat(10, 1)), Rat(1, 2))), 10)

\* getRandomMultiplier, with r the value Math.random() returned.
getRandomMultiplier(r) == roundToTenth(RAdd(One, RMul(r, Rat(2, 1))))

\* genes.sort((a, b) => a - b), stable
RECURSIVE InsertGene(_, _)
InsertGene(g, sorted) ==
    IF sorted = <<>> THEN <<g>>
    ELSE IF RLt(g, Head(sorted))
         THEN <<g>> \o sorted
         ELSE <<Head(sorted)>> \o InsertGene(g, Tail(sorted))

RECURSIVE SortGenesFrom(_, _)
SortGenesFrom(gs, acc) ==
    IF gs = <<>> THEN acc
    ELSE SortGenesFrom(Tail(gs), InsertGene(Head(gs), acc))

sortGenesSkipped(gs) == gs
sortGenes(gs) == SortGenesFrom(gs, <<>>)

\* genesToTiers: one tier per threshold of the gene's band.
RECURSIVE TiersFrom(_, _)
TiersFrom(genes, geneIndex) ==
    IF geneIndex > Len(genes) THEN <<>>
    ELSE LET thresholds == STEPS_MAPPING[geneIndex]
         IN  [t \in 1..Len(thresholds) |->
                 [id |-> "gen_" \o ToString(thresholds[t]),
                  threshold |-> Rat(thresholds[t], 100),
                  multiplier |-> genes[geneIndex]]]
             \o TiersFrom(genes, geneIndex + 1)

genesToTiers(genes) == TiersFrom(genes, 1)

\* -Infinity, the fitness of a genome that has not been evaluated.
NegInfinity == <<-1, 0>>

Genome(genes, fitness) == [genes |-> genes, fitness |-> fitness, tiers |-> genesToTiers(genes)]

\* generateMonotonicGenome, with draws[i] the value Math.random() returned for gene i.
generateMonotonicGenome(draws) ==
    Genome(sortGenes([i \in 1..GENE_COUNT |-> getRandomMultiplier(draws[i])]), NegInfinity)

\* The value mutate writes: Math.round((lowerBound + r * (upperBound - lowerBound)) * 10) / 10
mutatedGeneAnywhere(lowerBound, upperBound, r) == getRandomMultiplier(r)
mutatedGene(lowerBound, upperBound, r) ==
    roundToTenth(RAdd(lowerBound, RMul(r, RSub(upperBound, lowerBound))))

\* mutate, with rIdx and rVal the values of its two Math.random() calls; idx is 0-based.
mutate(genome, rIdx, rVal) ==
    LET idx == Floor(RMul(rIdx, Rat(GENE_COUNT, 1)))
        lowerBound == IF idx = 0 THEN One ELSE genome.genes[idx]
        upperBound == IF idx = GENE_COUNT - 1 THEN Rat(3, 1) ELSE genome.genes[idx + 2]
        genes == IF RLt(lowerBound, upperBound)
                 THEN [genome.genes EXCEPT ![idx + 1] = mutatedGene(lowerBound, upperBound, rVal)]
                 ELSE genome.genes
    IN  [genome EXCEPT !.genes = genes, !.tiers = genesToTiers(genes)]

\* crossover, with flips[i] the value Math.random() returned for gene i.
crossover(parentA, parentB, flips) ==
    Genome(sortGenes([i \in 1..GENE_COUNT |->
                         IF RLt(flips[i], Rat(1, 2)) THEN parentA.genes[i]
                         ELSE parentB.genes[i]]),
           NegInfinity)

----------------------------------------------------------------------------
(* optimizer.ts: runGeneticOptimizer                                       *)

\* runBacktest(prices, config, tiers, options) with options {liteMode,
\* preAggregated}, as runGeneticOptimizer calls it. In lite mode the loop body
\* computes the same running state and pushes no TradeRecord.
processPointLiteSkipsPurchase(s, pricePoint, cfg, ts, options) ==
    LET full == processPoint(s, pricePoint, cfg, ts)
    IN  IF options.liteMode
        THEN [full EXCEPT !.trades = s.trades, !.totalCoins = s.totalCoins]
        ELSE full
processPointWith(s, pricePoint, cfg, ts, options) ==
    LET full == processPoint(s, pricePoint, cfg, ts)
    IN  IF options.liteMode THEN [full EXCEPT !.trades = s.trades] ELSE full

RECURSIVE foldPoints(_, _, _, _, _)
foldPoints(s, daily, cfg, ts, options) ==
    IF daily = <<>> THEN s
    ELSE foldPoints(processPointWith(s, Head(daily), cfg, ts, options), Tail(daily),
                    cfg, ts, options)

\* The number of times one call of runBacktest runs aggregateDailyPrices.
aggregationsOf(options) == IF options.preAggregated THEN 0 ELSE 1

runBacktestWith(ps, cfg, ts, options) ==
    LET daily == IF options.preAggregated THEN ps ELSE aggregateDailyPrices(ps)
    IN  summaryOf(foldPoints(loopState(Zero, Rat(cfg.initialCapital, 1), Zero, Zero, Zero,
                                       FALSE, <<>>, Zero, <<>>),
                             daily, cfg, ts, options),
                  daily)

\* Lines 133-136: { liteMode: true, preAggregated: true }
evaluateOptionsRaw == [liteMode |-> TRUE, preAggregated |-> FALSE]
evaluateOptions == [liteMode |-> TRUE, preAggregated |-> TRUE]

\* Lines 130-138: genome.fitness = result.roi
evaluate(genome, daily, cfg) ==
    [genome EXCEPT !.fitness = runBacktestWith(daily, cfg, genome.tiers, evaluateOptions).roi]

\* b.fitness - a.fitness < 0: a is ranked before b. -Infinity - -Infinity is NaN,
\* which sort treats as 0.
RankedBefore(a, b) ==
    IF a.fitness = NegInfinity THEN FALSE
    ELSE IF b.fitness = NegInfinity THEN TRUE
    ELSE RLt(b.fitness, a.fitness)

\* population.sort((a, b) => b.fitness - a.fitness), stable
RECURSIVE InsertGenome(_, _)
InsertGenome(g, sorted) ==
    IF sorted = <<>> THEN <<g>>
    ELSE IF RankedBefore(g, Head(sorted))
         THEN <<g>> \o sorted
         ELSE <<Head(sorted)>> \o InsertGenome(g, Tail(sorted))

RECURSIVE SortPopulationFrom(_, _)
SortPopulationFrom(gs, acc) ==
    IF gs = <<>> THEN acc
    ELSE SortPopulationFrom(Tail(gs), InsertGenome(Head(gs), acc))

sortPopulation(gs) == SortPopulationFrom(gs, <<>>)

\* genome.genes.map(g => g.toFixed(1)).join('|'): the genes in tenths.
signature(genome) ==
    [i \in 1..Len(genome.genes) |-> Floor(RAdd(RMul(genome.genes[i], Rat(10, 1)), Rat(1, 2)))]

\* Lines 189-203: the first genomes of the ranked population with distinct signatures.
uniqueStrategiesRepeated(gs, found) == SubSeq(gs, 1, IF Len(gs) < 3 THEN Len(gs) ELSE 3)
RECURSIVE uniqueStrategies(_, _)
uniqueStrategies(gs, found) ==
    IF gs = <<>> THEN found
    ELSE LET seen == {signature(found[j]) : j \in 1..Len(found)}
             kept == IF signature(Head(gs)) \in seen THEN found ELSE Append(found, Head(gs))
         IN  IF Len(kept) >= 3 THEN kept ELSE uniqueStrategies(Tail(gs), kept)

Day(d) == d * MS_PER_DAY
GaSeries ==
    { <<[timestamp |-> Day(0), price |-> 100], [timestamp |-> Day(1), price |-> 90],
        [timestamp |-> Day(2), price |-> 50]>> }
GaConfig == [startDate |-> Day(0), endDate |-> Day(2), initialCapital |-> 100,
             baseDcaAmount |-> 20, dcaFrequency |-> 1]

InitOptimizer ==
    /\ prices \in GaSeries
    /\ config = GaConfig
    /\ gaPc = "begin"
    /\ population = <<>>
    /\ nextGen = <<>>
    /\ gen = 0
    /\ batchStart = 0
    /\ progress = <<>>
    /\ gaResult = <<>>
    /\ aggregations = 0
    /\ evaluations = 0
    /\ yields = 0
    /\ timesEvaluated = [j \in 1..POPULATION_SIZE |-> 0]
    /\ rankedBest = <<>>
    /\ mutGenome = <<>>
    /\ mutDraws = <<>>
    /\ mutResult = <<>>
    /\ rtData = <<>>
    /\ rtResult = <<>>
    /\ AppAtRest
    /\ evaluatedBest = NegInfinity
    /\ tiers = <<>>
    /\ pc = "idle"
    /\ dailyPrices = <<>>
    /\ k = 0
    /\ runningAth = Zero
    /\ remainingCash = Zero
    /\ totalCoins = Zero
    /\ totalInvested = Zero
    /\ maxDrawdown = Zero
    /\ fundsDepleted = FALSE
    /\ fundsDepletedDate = <<>>
    /\ drawdown = Zero
    /\ trades = <<>>
    /\ result = <<>>
    /\ gmDrawdown = Zero
    /\ gmTiers = <<>>
    /\ gmResult = <<>>

gaFrame == <<config, tiers, pc, k, runningAth, remainingCash, totalCoins,
             totalInvested, maxDrawdown, fundsDepleted, fundsDepletedDate, drawdown,
             trades, result, gmVars, extVars>>

\* Line 123: for (let gen = 0; gen < GENERATIONS; gen++), the test.
generationLoopStopsEarly(g) == g < GENERATIONS - 1
generationLoopContinues(g) == g < GENERATIONS

\* The highest fitness among the genomes gs and the fitness best.
RECURSIVE highestFitness(_, _)
highestFitness(gs, best) ==
    IF gs = <<>> THEN best
    ELSE highestFitness(Tail(gs), RMax(best, Head(gs).fitness))

\* population.slice(i, i + BATCH_SIZE) ends at this index.
batchEndSingle(i, size) == i + 1
batchEndOf(i, size) == IF i + BATCH_SIZE < size THEN i + BATCH_SIZE ELSE size

\* Lines 154-156: onProgress((gen / GENERATIONS) * 100, gen + 1)
progressCallZeroBased(g) == <<RMul(Rat(g, GENERATIONS), Hundred), g>>
progressCall(g) == <<RMul(Rat(g, GENERATIONS), Hundred), g + 1>>

\* Lines 169-179: parentA = population[iA], parentB = population[iB]; the child is a
\* new genome, mutated when mutates holds, and is pushed to nextGen. The value is
\* the population and nextGen after the iteration. The first ELITISM_COUNT
\* members of nextGen are the objects population[1..ELITISM_COUNT] (line 162
\* slices, line 165 spreads), so a write to a parent would show in both.
reproduceMutatingParent(pop, next, iA, iB, flips, mutates, rIdx, rVal) ==
    LET child == crossover(pop[iA], pop[iB], flips)
        parent == IF mutates THEN mutate(pop[iA], rIdx, rVal) ELSE pop[iA]
    IN  [population |-> [pop EXCEPT ![iA] = parent],
         nextGen |-> Append([j \in 1..Len(next) |-> IF j = iA THEN parent ELSE next[j]],
                            child)]
reproduce(pop, next, iA, iB, flips, mutates, rIdx, rVal) ==
    LET child == crossover(pop[iA], pop[iB], flips)
    IN  [population |-> pop,
         nextGen |-> Append(next, IF mutates THEN mutate(child, rIdx, rVal) ELSE child)]

\* Line 114: const dailyPrices = aggregateDailyPrices(prices)
Begin ==
    /\ gaPc = "begin"
    /\ dailyPrices' = aggregateDailyPrices(prices)
    /\ aggregations' = aggregations + 1
    /\ gaPc' = "init"
    /\ prices' = pricesArgumentAfter(prices)
    /\ UNCHANGED <<population, nextGen, gen, batchStart, progress, gaResult,
                   evaluations, yields, timesEvaluated, rankedBest, evaluatedBest,
                   gaFrame>>

\* Lines 118-120: one iteration of the loop that fills the first population; the
\* evolution loop starts once POPULATION_SIZE genomes exist.
Generate ==
    /\ gaPc = "init"
    /\ Len(population) < POPULATION_SIZE
    /\ \E draws \in [1..GENE_COUNT -> Random] :
           population' = Append(population, generateMonotonicGenome(draws))
    /\ gaPc' = IF Len(population) + 1 < POPULATION_SIZE THEN "init" ELSE "evaluate"
    /\ UNCHANGED <<dailyPrices, nextGen, gen, batchStart, progress, gaResult,
                   aggregations, evaluations, yields, timesEvaluated, rankedBest,
                   evaluatedBest, prices, gaFrame>>

\* Lines 128-150: the genomes of one batch are evaluated one after the other, then
\* the function suspends on the timer.
EvaluateBatch ==
    /\ gaPc = "evaluate"
    /\ LET batchEnd == batchEndOf(batchStart, Len(population))
       IN  /\ population' = [j \in 1..Len(population) |->
                                 IF batchStart < j /\ j <= batchEnd
                                 THEN evaluate(population[j], dailyPrices, config)
                                 ELSE population[j]]
           /\ evaluations' = evaluations + (batchEnd - batchStart)
           /\ timesEvaluated' = [j \in 1..POPULATION_SIZE |->
                                     IF batchStart < j /\ j <= batchEnd
                                     THEN timesEvaluated[j] + 1
                                     ELSE timesEvaluated[j]]
           /\ evaluatedBest' = highestFitness(SubSeq(population', batchStart + 1, batchEnd),
                                              evaluatedBest)
           /\ aggregations' =
                  aggregations + (batchEnd - batchStart) * aggregationsOf(evaluateOptions)
    /\ yields' = yields + 1
    /\ gaPc' = "await"
    /\ UNCHANGED <<dailyPrices, nextGen, gen, batchStart, progress, gaResult, rankedBest,
                   prices, gaFrame>>

\* The timer of line 150 fires: i += BATCH_SIZE and the batch loop tests i.
TimerFires ==
    /\ gaPc = "await"
    /\ batchStart' = batchStart + BATCH_SIZE
    /\ gaPc' = IF batchStart + BATCH_SIZE < Len(population) THEN "evaluate" ELSE "rank"
    /\ UNCHANGED <<dailyPrices, population, nextGen, gen, progress, gaResult,
                   aggregations, evaluations, yields, timesEvaluated, rankedBest,
                   evaluatedBest, prices, gaFrame>>

\* Lines 154-165: report, sort by fitness, keep the elite.
Rank ==
    /\ gaPc = "rank"
    /\ progress' = Append(progress, progressCall(gen))
    /\ population' = sortPopulation(population)
    /\ nextGen' = SubSeq(population', 1, ELITISM_COUNT)
    /\ rankedBest' = Append(rankedBest, population'[1].fitness)
    /\ gaPc' = "reproduce"
    /\ UNCHANGED <<dailyPrices, gen, batchStart, gaResult, aggregations, evaluations,
                   yields, timesEvaluated, evaluatedBest, prices, gaFrame>>

\* Lines 168-180: one child is added to the next generation.
Reproduce ==
    /\ gaPc = "reproduce"
    /\ Len(nextGen) < POPULATION_SIZE
    /\ LET parentPoolSize == Floor(RMul(Rat(POPULATION_SIZE, 1), Rat(4, 10))) IN
       \E rA \in Random, rB \in Random, flips \in [1..GENE_COUNT -> Random],
          rMutate \in Random :
           LET mutates == RLt(rMutate, MUTATION_RATE) IN
           \E rIdx \in (IF mutates THEN RandomWide ELSE {Zero}),
              rVal \in (IF mutates THEN RandomWide ELSE {Zero}) :
               \E after \in {reproduce(population, nextGen,
                                        Floor(RMul(rA, Rat(parentPoolSize, 1))) + 1,
                                        Floor(RMul(rB, Rat(parentPoolSize, 1))) + 1,
                                        flips, mutates, rIdx, rVal)} :
                   /\ population' = after.population
                   /\ nextGen' = after.nextGen
    /\ UNCHANGED <<dailyPrices, gen, batchStart, gaPc, progress, gaResult,
                   aggregations, evaluations, yields, timesEvaluated, rankedBest,
                   evaluatedBest, prices, gaFrame>>

\* Lines 182, 123: population = nextGen; gen++ and the evolution loop tests gen.
Advance ==
    /\ gaPc = "reproduce"
    /\ Len(nextGen) >= POPULATION_SIZE
    /\ population' = nextGen
    /\ gen' = gen + 1
    /\ batchStart' = 0
    /\ timesEvaluated' = [j \in 1..POPULATION_SIZE |-> 0]
    /\ gaPc' = IF generationLoopContinues(gen + 1) THEN "evaluate" ELSE "final"
    /\ UNCHANGED <<dailyPrices, nextGen, progress, gaResult, aggregations, evaluations,
                   yields, rankedBest, evaluatedBest, prices, gaFrame>>

\* Lines 186-209: final sort, distinct top strategies, the result.
Finish ==
    /\ gaPc = "final"
    /\ population' = sortPopulation(population)
    /\ LET top == uniqueStrategies(population', <<>>)
       IN  gaResult' = <<[bestGenome |-> top[1],
                          generationsRun |-> GENERATIONS,
                          topStrategies |-> top]>>
    /\ gaPc' = "done"
    /\ UNCHANGED <<dailyPrices, nextGen, gen, batchStart, progress, aggregations,
                   evaluations, yields, timesEvaluated, rankedBest, evaluatedBest,
                   prices, gaFrame>>

NextOptimizer ==
    Begin \/ Generate \/ EvaluateBatch \/ TimerFires \/ Rank \/ Reproduce \/ Advance \/ Finish

SpecOptimizer == InitOptimizer /\ [][NextOptimizer]_vars

----------------------------------------------------------------------------
(* runBacktest on a flat series: one tick a day at a constant price, from  *)
(* the start date on, bought every 7 days with capital that never runs     *)
(* out. The series has 22 days where Scenario A has 100: a timestamp in    *)
(* milliseconds of a later day exceeds the integers of the model checker.  *)
(* Like 100, 22 is not a multiple of 7, so the last purchase falls before  *)
(* the last day and ceil differs from floor.                               *)

ScenarioADays == 22

FlatSeries(price) ==
    [d \in 1..ScenarioADays |-> [timestamp |-> Day(d - 1), price |-> price]]

FlatConfig == [startDate |-> Day(0), endDate |-> Day(ScenarioADays),
               initialCapital |-> 1000 * ScenarioADays, baseDcaAmount |-> 30,
               dcaFrequency |-> 7]

FlatTierTables ==
    TierTables \cup {<<Tier("1", Zero, Rat(2, 1))>>,
                     <<Tier("1", Zero, Zero)>>,
                     <<Tier("1", Rat(-1, 10), Rat(15, 10))>>}

InitFlat ==
    /\ \E price \in PriceSet : prices = FlatSeries(price)
    /\ config = FlatConfig
    /\ tiers \in FlatTierTables
    /\ pc = "start"
    /\ dailyPrices = <<>>
    /\ k = 0
    /\ runningAth = Zero
    /\ remainingCash = Zero
    /\ totalCoins = Zero
    /\ totalInvested = Zero
    /\ maxDrawdown = Zero
    /\ fundsDepleted = FALSE
    /\ fundsDepletedDate = <<>>
    /\ drawdown = Zero
    /\ trades = <<>>
    /\ result = <<>>
    /\ gmDrawdown = Zero
    /\ gmTiers = <<>>
    /\ gmResult = <<>>
    /\ gaPc = "idle"
    /\ population = <<>>
    /\ nextGen = <<>>
    /\ gen = 0
    /\ batchStart = 0
    /\ progress = <<>>
    /\ gaResult = <<>>
    /\ aggregations = 0
    /\ evaluations = 0
    /\ yields = 0
    /\ timesEvaluated = [j \in 1..POPULATION_SIZE |-> 0]
    /\ rankedBest = <<>>
    /\ mutGenome = <<>>
    /\ mutDraws = <<>>
    /\ mutResult = <<>>
    /\ rtData = <<>>
    /\ rtResult = <<>>
    /\ AppAtRest
    /\ evaluatedBest = NegInfinity

SpecFlat == InitFlat /\ [][Next]_vars

----------------------------------------------------------------------------
(* Vocabulary of the properties, stated on the daily series itself and not *)
(* through the operators of runBacktest.                                   *)

Running == pc \in {"loop", "done"}
Capital == Rat(config.initialCapital, 1)

\* The largest price among the first j points of the daily series (0 when j = 0).
HighestPrice(j) ==
    IF j = 0 THEN 0
    ELSE CHOOSE m \in {dailyPrices[i].price : i \in 1..j} :
             \A i \in 1..j : dailyPrices[i].price <= m

\* The drawdown of point j against the highest price seen up to it.
PointDrawdown(j) == Rat(dailyPrices[j].price - HighestPrice(j), HighestPrice(j))

\* Point j is on or after the start date.
AfterStart(j) == dailyPrices[j].timestamp >= config.startDate

\* Point j falls in a day-long window that opens a whole number of periods
\* after the start date.
Scheduled(j) ==
    \E n \in 0..Len(dailyPrices) + 2 :
        LET opens == config.startDate + n * config.dcaFrequency * MS_PER_DAY
        IN  opens <= dailyPrices[j].timestamp /\ dailyPrices[j].timestamp < opens + MS_PER_DAY

ScheduledPoints(j) == {i \in 1..j : Scheduled(i)}

\* The cash left before trade j was made.
CashBefore(j) == IF j = 1 THEN Capital ELSE trades[j - 1].remainingCash

Shortfalls == {j \in 1..Len(trades) : trades[j].insufficientFunds}

----------------------------------------------------------------------------
\* C1: after every processed point, at every recorded trade and in the returned
\* result, the remaining cash is not negative and the amount invested so far plus
\* the remaining cash is the initial capital.
C1_CashConserved ==
    Running =>
        /\ RLe(Zero, remainingCash)
        /\ RAdd(totalInvested, remainingCash) = Capital
        /\ \A j \in 1..Len(trades) :
               /\ RLe(Zero, trades[j].remainingCash)
               /\ RLe(Zero, trades[j].amount)
               /\ RAdd(trades[j].amount, trades[j].remainingCash) = CashBefore(j)
        /\ (pc = "done" => RAdd(result[1].totalInvested, remainingCash) = Capital)

C1_Witness ==
    /\ pc = "done"
    /\ Len(trades) >= 2
    /\ fundsDepleted
    /\ remainingCash = Zero
    /\ result[1].totalInvested = Capital

\* The tiers of a list that cover a drawdown, and the deepest threshold of a list.
Covering(dd, ts) == {j \in 1..Len(ts) : RLe(dd, ts[j].threshold)}
DeeperThanAll(dd, ts) == ts # <<>> /\ \A j \in 1..Len(ts) : RLt(dd, ts[j].threshold)
DeepestTiers(ts) == {j \in 1..Len(ts) : \A i \in 1..Len(ts) : RLe(ts[j].threshold, ts[i].threshold)}

ExampleTiers == <<[id |-> "a", threshold |-> Zero, multiplier |-> One],
                  [id |-> "b", threshold |-> Rat(-1, 10), multiplier |-> Rat(12, 10)]>>

\* C2: getMultiplier returns the multiplier of a tier whose threshold is the
\* smallest threshold that is >= the drawdown, and 1 when the list is empty or no
\* threshold is >= the drawdown; with tiers {0: 1, -0.1: 1.2} it returns 1 for
\* drawdown 0 and 1.2 for drawdown -0.15.
C2_SmallestCoveringTier ==
    gmResult # <<>> =>
        LET covering == Covering(gmDrawdown, gmTiers)
        IN  /\ covering = {} => gmResult[1] = One
            /\ covering # {} =>
                   \E j \in covering :
                       /\ \A i \in covering : RLe(gmTiers[j].threshold, gmTiers[i].threshold)
                       /\ gmResult[1] = gmTiers[j].multiplier
            /\ (gmTiers = ExampleTiers /\ gmDrawdown = Zero) => gmResult[1] = One
            /\ (gmTiers = ExampleTiers /\ gmDrawdown = Rat(-15, 100))
                   => gmResult[1] = Rat(12, 10)

C2_Witness ==
    /\ gmTiers = ExampleTiers
    /\ gmDrawdown = Rat(-15, 100)
    /\ gmResult = <<Rat(12, 10)>>

\* Scenario B: 100 on day 0, 50 on days 1 and 2, tiers {0: 1, -0.4: 2}, daily,
\* from day 0.
ScenarioB ==
    /\ pc = "done"
    /\ tiers = ScenarioBTiers
    /\ config.dcaFrequency = 1
    /\ config.startDate = 0
    /\ [j \in 1..Len(dailyPrices) |-> dailyPrices[j].price] = <<100, 50, 50>>
    /\ Len(trades) = 3

\* C3 as stated: a drawdown deeper than every threshold of the tier table
\* resolves to the neutral multiplier 1 (so both first trades of Scenario B
\* carry multiplier 1).
C3_DeeperThanAllIsNeutral ==
    Running =>
        \A j \in 1..Len(trades) :
            DeeperThanAll(trades[j].drawdown, tiers) => trades[j].multiplier = One

\* C3 as amended: a drawdown deeper than every threshold is covered by every
\* tier and resolves to the multiplier of the tier with the deepest threshold:
\* 1.2 for drawdown -0.95 with the single tier {-0.1: 1.2}, and in Scenario B
\* multiplier 1 on day 0 (drawdown 0) and 2 on day 1 (drawdown -0.5).
C3_DeeperThanAllIsDeepestTier ==
    /\ getMultiplier(Rat(-95, 100), <<Tier("1", Rat(-1, 10), Rat(12, 10))>>) = Rat(12, 10)
    /\ Running =>
           /\ \A j \in 1..Len(trades) :
                  DeeperThanAll(trades[j].drawdown, tiers) =>
                      \E i \in DeepestTiers(tiers) :
                          trades[j].multiplier = tiers[i].multiplier
           /\ ScenarioB =>
                  /\ trades[1].drawdown = Zero /\ trades[1].multiplier = One
                  /\ trades[2].drawdown = Rat(-1, 2) /\ trades[2].multiplier = Rat(2, 1)

C3_Witness == ScenarioB /\ trades[2].multiplier = Rat(2, 1)

C5_DepletionRecordedOnce ==
    Running =>
        /\ fundsDepleted = (Shortfalls # {})
        /\ fundsDepletedDate =
               IF Shortfalls = {} THEN <<>>
               ELSE <<trades[CHOOSE j \in Shortfalls : \A i \in Shortfalls : j <= i].date>>
        /\ (pc = "done" =>
               /\ result[1].fundsDepleted = fundsDepleted
               /\ result[1].fundsDepletedDate = fundsDepletedDate)

C5_Witness ==
    /\ pc = "done"
    /\ Cardinality(Shortfalls) >= 2
    /\ ~trades[1].insufficientFunds

\* C6: the running all-time high is the largest price of the points consumed so
\* far, points before the start date included, hence never decreases; the
\* all-time high of a trade is the largest price up to its point; the drawdown
\* of every point is at most 0.
C6_AthMonotone ==
    Running =>
        /\ runningAth = Rat(HighestPrice(k), 1)
        /\ RLe(drawdown, Zero)
        /\ (k > 0 => drawdown = PointDrawdown(k))
        /\ \A j \in 1..Len(trades) :
               /\ RLe(trades[j].drawdown, Zero)
               /\ \E i \in 1..k :
                      /\ dailyPrices[i].timestamp = trades[j].date
                      /\ trades[j].ath = Rat(HighestPrice(i), 1)
               /\ (j > 1 => RLe(trades[j - 1].ath, trades[j].ath))

\* A trade made below a high that was set before the start date.
C6_Witness ==
    /\ pc = "done"
    /\ Len(trades) >= 1
    /\ RLt(trades[1].price, trades[1].ath)
    /\ \E i \in 1..Len(dailyPrices) :
           /\ ~AfterStart(i)
           /\ Rat(dailyPrices[i].price, 1) = trades[1].ath

\* C7: the trades are, in order and one each, exactly the points of the daily
\* series consumed so far that are on or after the start date and fall a whole
\* number of periods after it; a scheduled day absent from the series gets no
\* trade, on that day or later.
C7_TradesAreScheduledPoints ==
    Running =>
        /\ Len(trades) = Cardinality(ScheduledPoints(k))
        /\ \A i \in 1..k :
               (AfterStart(i) /\ Scheduled(i))
                   <=> (\E j \in 1..Len(trades) : trades[j].date = dailyPrices[i].timestamp)
        /\ \A j \in 1..(Len(trades) - 1) : trades[j].date < trades[j + 1].date

\* Period of 2 days from day 0, day 0 absent from the series, days 1 and 2
\* present: only day 2 trades.
C7_Witness ==
    /\ pc = "done"
    /\ config.dcaFrequency = 2
    /\ config.startDate = 0
    /\ Len(dailyPrices) = 2
    /\ dateKey(dailyPrices[1].timestamp) = 1
    /\ Len(trades) = 1
    /\ dateKey(trades[1].date) = 2

\* C8: the maximum drawdown is the smallest drawdown among the consumed points
\* on or after the start date (0 when there is none), each measured against the
\* highest price of the whole series up to it; the result reports it times 100.
C8_MaxDrawdownInRange ==
    Running =>
        LET inRangePoints == {i \in 1..k : AfterStart(i)}
        IN  /\ \A i \in inRangePoints : RLe(maxDrawdown, PointDrawdown(i))
            /\ \/ maxDrawdown = Zero /\ \A i \in inRangePoints : PointDrawdown(i) = Zero
               \/ \E i \in inRangePoints : maxDrawdown = PointDrawdown(i)
            /\ (pc = "done" => result[1].maxDrawdown = RMul(maxDrawdown, Hundred))

\* A drawdown before the start date deeper than the reported maximum, and an
\* in-range drawdown measured against a high set before the start date.
C8_Witness ==
    /\ pc = "done"
    /\ \E i \in 1..Len(dailyPrices) :
           ~AfterStart(i) /\ RLt(PointDrawdown(i), maxDrawdown)

----------------------------------------------------------------------------
(* The optimizer's genomes.                                                *)

Monotonic(genes) == \A i \in 2..Len(genes) : RLe(genes[i - 1], genes[i])

\* Every genome the optimizer holds: the population and the generation being built.
Genomes == {population[j] : j \in 1..Len(population)} \cup {nextGen[j] : j \in 1..Len(nextGen)}

\* C9: every genome of the population, and every genome entering the next one
\* (generated, crossed over, or crossed over and mutated), has non-decreasing
\* genes, at every generation.
C9_GenesMonotonic ==
    \A g \in Genomes : Len(g.genes) = GENE_COUNT /\ Monotonic(g.genes)

\* A population of the second generation whose last member, a child, carries a
\* gene that only mutate can produce.
C9_Witness ==
    /\ gen = 1
    /\ gaPc = "evaluate"
    /\ \E i \in 1..GENE_COUNT :
           population[POPULATION_SIZE].genes[i] \notin {getRandomMultiplier(r) : r \in Random}

\* Drawdowns around and beyond the band thresholds of the genome's tiers.
DrawdownGrid ==
    {Rat(d, 100) : d \in {0, -3, -5, -7, -10, -15, -18, -20, -22, -25, -50, -95}}

\* C10: for every genome of the population the resolved multiplier never
\* decreases as the drawdown deepens, from drawdowns shallower than the first
\* band (multiplier 1) to drawdowns deeper than the last band.
C10_MultiplierMonotonic ==
    \A j \in 1..Len(population) :
        \A m \in {[d \in DrawdownGrid |-> getMultiplier(d, population[j].tiers)]} :
            /\ m[Rat(-3, 100)] = One
            /\ \A d1 \in DrawdownGrid, d2 \in DrawdownGrid :
                   RLe(d1, d2) => RLe(m[d2], m[d1])

\* A genome with three different genes: the multiplier grows strictly from the
\* first band to the second and to drawdowns beyond the last.
C10_Witness ==
    \E j \in 1..Len(population) :
        LET ts == population[j].tiers
        IN  /\ RLt(One, getMultiplier(Rat(-7, 100), ts))
            /\ RLt(getMultiplier(Rat(-7, 100), ts), getMultiplier(Rat(-20, 100), ts))
            /\ RLt(getMultiplier(Rat(-20, 100), ts), getMultiplier(Rat(-95, 100), ts))

----------------------------------------------------------------------------
(* The optimizer's result.                                                 *)

Signatures(gs) == {signature(gs[j]) : j \in 1..Len(gs)}

\* The position of the first genome of gs with the signature of g.
FirstWithSignature(gs, g) ==
    CHOOSE j \in 1..Len(gs) :
        /\ signature(gs[j]) = signature(g)
        /\ \A i \in 1..(j - 1) : signature(gs[i]) # signature(g)

Descending(gs) == \A i \in 1..Len(gs), j \in 1..Len(gs) : i < j => ~RankedBefore(gs[j], gs[i])

\* C11: the result's topStrategies holds at most 3 genomes, taken from the final
\* ranked population in its descending-fitness order, each the first genome of
\* the ranking with its gene vector rounded to one decimal, so pairwise distinct
\* in that rounding; it holds fewer than 3 only when the final population has
\* fewer than 3 distinct rounded gene vectors; bestGenome is topStrategies[0].
C11_TopStrategies ==
    gaPc = "done" =>
        LET top == gaResult[1].topStrategies
            distinct == Cardinality(Signatures(population))
        IN  /\ Len(top) <= 3
            /\ Descending(population)
            /\ Descending(top)
            /\ \A i \in 1..Len(top) :
                   /\ signature(top[i]) \in Signatures(population)
                   /\ top[i] = population[FirstWithSignature(population, top[i])]
            /\ \A i \in 1..Len(top), j \in 1..Len(top) :
                   i < j => /\ signature(top[i]) # signature(top[j])
                            /\ FirstWithSignature(population, top[i])
                                   < FirstWithSignature(population, top[j])
            /\ Len(top) = IF distinct < 3 THEN distinct ELSE 3
            /\ gaResult[1].bestGenome = top[1]

\* A result of three strategies that is not the first three genomes of the final
\* ranking: a genome repeating an earlier rounded gene vector was passed over.
C11_Witness ==
    /\ gaPc = "done"
    /\ Len(gaResult[1].topStrategies) = 3
    /\ gaResult[1].topStrategies # SubSeq(population, 1, 3)

----------------------------------------------------------------------------
(* The aggregator's output against its raw input.                          *)

Aggregated == pc = "aggregated"
InputDays == {dateKey(prices[j].timestamp) : j \in 1..Len(prices)}
OutputDays == {dateKey(dailyPrices[j].timestamp) : j \in 1..Len(dailyPrices)}

\* The ticks of the input that fall on UTC day d.
TicksOfDay(d) == {prices[j] : j \in {i \in 1..Len(prices) : dateKey(prices[i].timestamp) = d}}

\* C12: whatever the order of the raw ticks, the point retained for a UTC day
\* carries the chronologically latest timestamp among the ticks of that day.
C12_KeepsChronologicallyLatest ==
    Aggregated =>
        \A i \in 1..Len(dailyPrices) :
            \A t \in TicksOfDay(dateKey(dailyPrices[i].timestamp)) :
                t.timestamp <= dailyPrices[i].timestamp

\* C13: the aggregated series has strictly increasing timestamps, no two points
\* on one UTC day, one point (a tick of the input) for each day present in the
\* input and for no other day, and is empty when the input is empty.
C13_OnePointPerDayAscending ==
    Aggregated =>
        /\ \A i \in 1..(Len(dailyPrices) - 1) :
               dailyPrices[i].timestamp < dailyPrices[i + 1].timestamp
        /\ \A i \in 1..Len(dailyPrices), j \in 1..Len(dailyPrices) :
               i # j => dateKey(dailyPrices[i].timestamp) # dateKey(dailyPrices[j].timestamp)
        /\ OutputDays = InputDays
        /\ Len(dailyPrices) = Cardinality(InputDays)
        /\ \A i \in 1..Len(dailyPrices) :
               dailyPrices[i] \in TicksOfDay(dateKey(dailyPrices[i].timestamp))
        /\ (prices = <<>> => dailyPrices = <<>>)

\* Three ticks given latest day first, two of them on one day: two points come
\* out, earliest day first.
C13_Witness ==
    /\ Aggregated
    /\ Len(prices) = 3
    /\ prices[1].timestamp > prices[3].timestamp
    /\ Len(dailyPrices) = 2

----------------------------------------------------------------------------
(* Scenario A: the flat series.                                            *)

FlatPrice == Rat(prices[1].price, 1)
FlatEvents == (ScenarioADays + config.dcaFrequency - 1) \div config.dcaFrequency

\* The tiers that cover drawdown 0 and have the smallest threshold among those.
TiersAtZero ==
    {j \in Covering(Zero, tiers) :
        \A i \in Covering(Zero, tiers) : RLe(tiers[j].threshold, tiers[i].threshold)}

\* C14 as stated: on the flat series, with any tier table, the run makes
\* ceil(days / frequency) purchases, each with multiplier 1 and drawdown 0, and
\* ends with averagePrice = P and roi = 0.
C14_FlatPriceIsNeutral ==
    pc = "done" =>
        /\ Len(trades) = FlatEvents
        /\ \A j \in 1..Len(trades) :
               trades[j].multiplier = One /\ trades[j].drawdown = Zero
        /\ result[1].averagePrice = FlatPrice
        /\ result[1].roi = Zero

\* C14 amended: on the flat series the run makes ceil(days / frequency)
\* purchases, each with drawdown 0 and with the multiplier the tier table gives
\* for drawdown 0: 1 when no tier has a threshold >= 0, otherwise the multiplier
\* of a covering tier of smallest threshold. roi is 0; averagePrice is P when
\* something was invested and 0 when that multiplier is 0.
C14_FlatPriceResolvesAtZero ==
    pc = "done" =>
        /\ Len(trades) = FlatEvents
        /\ \A j \in 1..Len(trades) :
               /\ trades[j].drawdown = Zero
               /\ IF TiersAtZero = {}
                  THEN trades[j].multiplier = One
                  ELSE \E i \in TiersAtZero : trades[j].multiplier = tiers[i].multiplier
               /\ trades[j].multiplier = trades[1].multiplier
        /\ result[1].roi = Zero
        /\ result[1].averagePrice =
               IF RLt(Zero, trades[1].multiplier) THEN FlatPrice ELSE Zero

\* The flat run under a table whose tier at threshold 0 doubles the purchase.
C14_Witness ==
    /\ pc = "done"
    /\ Len(trades) = FlatEvents
    /\ trades[1].multiplier = Rat(2, 1)
    /\ result[1].averagePrice = FlatPrice

----------------------------------------------------------------------------
(* Elitism.                                                                *)

Occurrences(gs, g) == Cardinality({j \in 1..Len(gs) : gs[j] = g})

\* b holds the genomes of a, each as many times.
Rearranged(a, b) ==
    /\ Len(a) = Len(b)
    /\ \A j \in 1..Len(a) : Occurrences(a, a[j]) = Occurrences(b, a[j])

SameStrategy(a, b) == a.genes = b.genes /\ a.tiers = b.tiers

\* What one step of the optimizer may do to the genomes it holds.
ElitismStep ==
    /\ gaPc = "rank" =>
           /\ Rearranged(population, population')
           /\ Descending(population')
           /\ nextGen' = SubSeq(population', 1, ELITISM_COUNT)
    /\ gaPc = "reproduce" /\ gaPc' = "reproduce" =>
           /\ population' = population
           /\ Len(nextGen') = Len(nextGen) + 1
           /\ SubSeq(nextGen', 1, Len(nextGen)) = nextGen
    /\ gaPc = "reproduce" /\ gaPc' # "reproduce" =>
           /\ Len(population') = POPULATION_SIZE
           /\ \A j \in 1..ELITISM_COUNT : population'[j] = population[j]
    /\ gaPc \in {"evaluate", "await"} =>
           /\ Len(population') = Len(population)
           /\ \A j \in 1..Len(population) : SameStrategy(population'[j], population[j])

\* C15: in every generation the ranking puts the ELITISM_COUNT best genomes, and
\* only rearranges the population; these genomes open the next generation and
\* are its first ELITISM_COUNT members when it replaces the population, with
\* genes and tiers as ranked; adding a child writes neither to the population,
\* where the parents are, nor to the genomes already in the next generation;
\* evaluation leaves genes and tiers as they are.
C15_ElitesCarriedUnchanged == [][ElitismStep]_vars

\* The second generation about to be evaluated: four evaluated elites, and a
\* child that was mutated, a gene of it being no value a fresh genome can have.
C15_Witness ==
    /\ gen = 1
    /\ gaPc = "evaluate"
    /\ batchStart = 0
    /\ \A j \in 1..ELITISM_COUNT : population[j].fitness # NegInfinity
    /\ population[POPULATION_SIZE].fitness = NegInfinity
    /\ \E i \in 1..GENE_COUNT :
           population[POPULATION_SIZE].genes[i] \notin {getRandomMultiplier(r) : r \in Random}

----------------------------------------------------------------------------
(* Lite mode.                                                              *)

LiteOptions == [liteMode |-> TRUE, preAggregated |-> FALSE]
FullOptions == [liteMode |-> FALSE, preAggregated |-> FALSE]

AggregateFields ==
    {"totalInvested", "totalCoins", "averagePrice", "finalValue", "roi", "maxDrawdown",
     "fundsDepleted", "fundsDepletedDate"}

----------------------------------------------------------------------------
(* The optimizer's use of the aggregator and of the simulator.             *)

----------------------------------------------------------------------------
(* The end of the backtest window.                                         *)

\* C18: no trade of the run is dated after config.endDate.
C18_NoTradeAfterEndDate ==
    \A j \in 1..Len(trades) : trades[j].date <= config.endDate

----------------------------------------------------------------------------
(* Progress reports.                                                       *)

\* The generations whose evaluation has been reported.
GenerationsReported == IF gaPc = "reproduce" THEN gen + 1 ELSE gen

\* C19: onProgress has been called once for each generation evaluated so far and
\* GENERATIONS times when the optimizer is done; the i-th call carries
\* generation i and a percentage between 0 and 100 that is not below that of
\* an earlier call.
C19_ProgressPerGeneration ==
    /\ Len(progress) = GenerationsReported
    /\ gaPc = "done" => Len(progress) = GENERATIONS
    /\ \A i \in 1..Len(progress) :
           /\ progress[i][2] = i
           /\ RLe(Zero, progress[i][1])
           /\ RLe(progress[i][1], Hundred)
    /\ \A i \in 1..Len(progress), j \in 1..Len(progress) :
           i < j => RLe(progress[i][1], progress[j][1])

\* The finished optimizer after GENERATIONS reports, the last with a higher
\* percentage than the first.
C19_Witness ==
    /\ gaPc = "done"
    /\ Len(progress) = GENERATIONS
    /\ progress[GENERATIONS][2] = GENERATIONS
    /\ RLt(progress[1][1], progress[GENERATIONS][1])

----------------------------------------------------------------------------
(* Where the optimizer suspends.                                           *)

BatchesPerGeneration == (POPULATION_SIZE + BATCH_SIZE - 1) \div BATCH_SIZE

Smaller(a, b) == IF a < b THEN a ELSE b

\* The batches of the current generation that have been evaluated, and the
\* genomes in them.
BatchesEvaluated ==
    CASE gaPc \in {"begin", "init", "final", "done"} -> 0
      [] gaPc = "evaluate" -> batchStart \div BATCH_SIZE
      [] gaPc = "await" -> batchStart \div BATCH_SIZE + 1
      [] gaPc \in {"rank", "reproduce"} -> BatchesPerGeneration
GenomesEvaluated == Smaller(BatchesEvaluated * BATCH_SIZE, POPULATION_SIZE)

\* C20: the optimizer has suspended once for each batch evaluated, a batch being
\* the next BATCH_SIZE genomes of the population or the fewer that remain, and
\* at no other point: the count of suspensions is the count of batches, that of
\* simulator calls the count of genomes in them, and neither moves while the
\* population is ranked, the elite kept and the children made. While it is
\* suspended every genome of the batches so far has its fitness, and ranking
\* finds every genome of the generation evaluated.
C20_YieldsAtBatchBoundaries ==
    /\ yields = gen * BatchesPerGeneration + BatchesEvaluated
    /\ evaluations = gen * POPULATION_SIZE + GenomesEvaluated
    /\ gaPc = "await" =>
           \A j \in 1..GenomesEvaluated : population[j].fitness # NegInfinity
    /\ gaPc \in {"rank", "reproduce"} =>
           /\ GenomesEvaluated = Len(population)
           /\ \A j \in 1..Len(population) : population[j].fitness # NegInfinity

\* The optimizer suspended after the last batch of the second generation, a
\* batch of fewer than BATCH_SIZE genomes.
C20_Witness ==
    /\ gaPc = "await"
    /\ gen = 1
    /\ batchStart + BATCH_SIZE > POPULATION_SIZE
    /\ yields = 2 * BatchesPerGeneration
    /\ evaluations = 2 * POPULATION_SIZE

----------------------------------------------------------------------------
(* Termination and the work done.                                          *)

GenerationRuns == gaPc \in {"evaluate", "await", "rank", "reproduce"}

EveryGenerationInFull ==
    /\ gen <= GENERATIONS
    /\ GenerationRuns => gen < GENERATIONS /\ Len(population) = POPULATION_SIZE
    /\ \A j \in 1..Len(timesEvaluated) : timesEvaluated[j] <= 1
    /\ gaPc = "evaluate" /\ batchStart = 0 =>
           \A j \in 1..POPULATION_SIZE : timesEvaluated[j] = 0
    /\ gaPc \in {"rank", "reproduce"} =>
           \A j \in 1..POPULATION_SIZE : timesEvaluated[j] = 1
    /\ gaPc \in {"final", "done"} =>
           /\ gen = GENERATIONS
           /\ Len(rankedBest) = GENERATIONS
           /\ evaluations = POPULATION_SIZE * GENERATIONS
    /\ gaPc = "done" => gaResult[1].generationsRun = GENERATIONS

\* The steps of one generation: a step and a timer for each batch, the ranking,
\* the children, the replacement of the population.
StepsPerGeneration ==
    2 * BatchesPerGeneration + 1 + (POPULATION_SIZE - ELITISM_COUNT) + 1

\* The steps between the state and the resolution of the optimizer.
StepsLeft ==
    CASE gaPc = "begin" ->
             1 + POPULATION_SIZE + GENERATIONS * StepsPerGeneration + 1
      [] gaPc = "init" ->
             (POPULATION_SIZE - Len(population)) + GENERATIONS * StepsPerGeneration + 1
      [] gaPc = "evaluate" ->
             (GENERATIONS - gen) * StepsPerGeneration - 2 * (batchStart \div BATCH_SIZE) + 1
      [] gaPc = "await" ->
             (GENERATIONS - gen) * StepsPerGeneration - 2 * (batchStart \div BATCH_SIZE)
      [] gaPc = "rank" ->
             (GENERATIONS - gen) * StepsPerGeneration - 2 * BatchesPerGeneration + 1
      [] gaPc = "reproduce" ->
             (GENERATIONS - gen - 1) * StepsPerGeneration
                 + (POPULATION_SIZE - Len(nextGen)) + 2
      [] gaPc = "final" -> 1
      [] gaPc = "done" -> 0

\* The guards of the optimizer's steps: the state has a step to take, which is
\* the timer callback when the optimizer is suspended and synchronous code
\* otherwise.
StepToTake ==
    \/ gaPc = "begin"
    \/ gaPc = "init" /\ Len(population) < POPULATION_SIZE
    \/ gaPc = "evaluate" /\ batchStart < Len(population)
    \/ gaPc = "await"
    \/ gaPc = "rank"
    \/ gaPc = "reproduce"
    \/ gaPc = "final" /\ population # <<>>

\* A step of the optimizer brings the resolution one step nearer and leaves the
\* optimizer either resolved or with a further step to take.
StepTowardsResolution ==
    /\ EveryGenerationInFull /\ EveryGenerationInFull'
    /\ StepsLeft >= 0 /\ StepsLeft' = StepsLeft - 1
    /\ (gaPc' = "done") = (StepsLeft' = 0)
    /\ gaPc' # "done" => StepToTake'

\* C21: the optimizer runs GENERATIONS generations and stops in none before; each
\* generation starts with POPULATION_SIZE genomes, none evaluated, and is
\* ranked with each of them evaluated once, POPULATION_SIZE x GENERATIONS calls
\* of the simulator in all, and resolves with generationsRun = GENERATIONS.
\* It resolves whenever the host runs every timer callback: the number of
\* steps to the resolution is finite and falls by one at every step, and before
\* the resolution a step is always there to take, the timer callback or code
\* that runs without waiting.
C21_RunsEveryGeneration == [][StepTowardsResolution]_vars

\* The resolved optimizer, GENERATIONS rankings and POPULATION_SIZE x GENERATIONS
\* evaluations behind it.
C21_Witness ==
    /\ gaPc = "done"
    /\ gen = GENERATIONS
    /\ gaResult[1].generationsRun = GENERATIONS
    /\ Len(rankedBest) = GENERATIONS
    /\ evaluations = POPULATION_SIZE * GENERATIONS

----------------------------------------------------------------------------
(* Runs that invest nothing.                                               *)

NothingInvested == pc = "done" /\ result[1].totalInvested = Zero
NoPointInRange == \A j \in 1..Len(dailyPrices) : ~AfterStart(j)

\* C22 as stated: a finished run that invested nothing has totalCoins,
\* averagePrice, finalValue, roi and maxDrawdown 0 and fundsDepleted false.
C22_NothingInvestedAllZero ==
    NothingInvested =>
        /\ result[1].totalCoins = Zero
        /\ result[1].averagePrice = Zero
        /\ result[1].finalValue = Zero
        /\ result[1].roi = Zero
        /\ result[1].maxDrawdown = Zero
        /\ result[1].fundsDepleted = FALSE

\* C22 amended: a finished run that invested nothing has totalCoins,
\* averagePrice, finalValue and roi 0. Its maxDrawdown is 0 and fundsDepleted
\* false when no point of the series is on or after startDate, the empty series
\* included; otherwise maxDrawdown is the deepest drawdown of the points in
\* range, and fundsDepleted holds exactly when a purchase was due with less
\* cash than its amount.
C22_NothingInvestedNoDivision ==
    NothingInvested =>
        /\ result[1].totalCoins = Zero
        /\ result[1].averagePrice = Zero
        /\ result[1].finalValue = Zero
        /\ result[1].roi = Zero
        /\ NoPointInRange =>
               result[1].maxDrawdown = Zero /\ result[1].fundsDepleted = FALSE
        /\ \A j \in 1..Len(dailyPrices) :
               AfterStart(j) => RLe(result[1].maxDrawdown, RMul(PointDrawdown(j), Hundred))
        /\ result[1].fundsDepleted = (Shortfalls # {})

\* A finished run over a series with points, all before startDate.
C22_Witness ==
    /\ NothingInvested
    /\ dailyPrices # <<>>
    /\ NoPointInRange
    /\ result[1].roi = Zero

----------------------------------------------------------------------------
(* Tier tables that are not well formed.                                   *)

\* A threshold outside (-1, 0].
Malformed(ts) ==
    \E j \in 1..Len(ts) : ~(RLt(Rat(-1, 1), ts[j].threshold) /\ RLe(ts[j].threshold, Zero))

\* C23: a tier table with a threshold outside (-1, 0] is rejected: no call of
\* getMultiplier on such a table returns a multiplier.
C23_MalformedTableRejected ==
    Malformed(gmTiers) => gmResult = <<>>

----------------------------------------------------------------------------
(* The order of the tiers.                                                 *)

Orderings(n) == {f \in [1..n -> 1..n] : \A i \in 1..n, j \in 1..n : i # j => f[i] # f[j]}
Reordered(ts, f) == [i \in 1..Len(ts) |-> ts[f[i]]]

\* C24: the multiplier getMultiplier has returned for a tier list is the one it
\* returns for every reordering of the list, lists with two tiers of one
\* threshold and different multipliers included.
C24_OrderIrrelevant ==
    gmResult # <<>> =>
        \A f \in Orderings(Len(gmTiers)) :
            getMultiplier(gmDrawdown, Reordered(gmTiers, f)) = gmResult[1]

----------------------------------------------------------------------------
(* mutate on its own: one call on a genome of the kind the optimizer       *)
(* hands it, genes on the 0.1 grid of getRandomMultiplier in ascending     *)
(* order.                                                                  *)

\* The state of the backtest, of the resolver and of the optimizer before any call.
BtAtRest ==
    /\ prices = <<>>
    /\ pc = "raw"
    /\ dailyPrices = <<>>
    /\ config = [startDate |-> 0, endDate |-> 0, initialCapital |-> 0,
                 baseDcaAmount |-> 0, dcaFrequency |-> 1]
    /\ tiers = <<>>
    /\ k = 0
    /\ runningAth = Zero
    /\ remainingCash = Zero
    /\ totalCoins = Zero
    /\ totalInvested = Zero
    /\ maxDrawdown = Zero
    /\ fundsDepleted = FALSE
    /\ fundsDepletedDate = <<>>
    /\ drawdown = Zero
    /\ trades = <<>>
    /\ result = <<>>

GmAtRest ==
    /\ gmDrawdown = Zero
    /\ gmTiers = <<>>
    /\ gmResult = <<>>

GaAtRest ==
    /\ gaPc = "idle"
    /\ population = <<>>
    /\ nextGen = <<>>
    /\ gen = 0
    /\ batchStart = 0
    /\ progress = <<>>
    /\ gaResult = <<>>
    /\ aggregations = 0
    /\ evaluations = 0
    /\ yields = 0
    /\ timesEvaluated = <<>>
    /\ rankedBest = <<>>
    /\ evaluatedBest = NegInfinity

GeneGrid == {One, Rat(11, 10), Rat(3, 2), Rat(2, 1), Rat(3, 1)}

MutableGenomes ==
    {Genome(genes, NegInfinity) :
        genes \in {g \in [1..GENE_COUNT -> GeneGrid] :
                      \A i \in 1..(GENE_COUNT - 1) : RLe(g[i], g[i + 1])}}

InitMutate ==
    /\ BtAtRest
    /\ GmAtRest
    /\ GaAtRest
    /\ mutGenome \in MutableGenomes
    /\ mutDraws \in RandomWide \X RandomWide
    /\ mutResult = <<>>
    /\ rtData = <<>>
    /\ rtResult = <<>>
    /\ AppAtRest

CallMutate ==
    /\ mutResult = <<>>
    /\ mutResult' = <<mutate(mutGenome, mutDraws[1], mutDraws[2])>>
    /\ UNCHANGED <<mutGenome, mutDraws, rtVars, appVars, btVars, gmVars, gaVars>>

NextMutate == CallMutate

SpecMutate == InitMutate /\ [][NextMutate]_vars

\* The 0-based index mutate draws and the bounds the neighbours give it.
MutIdx == Floor(RMul(mutDraws[1], Rat(GENE_COUNT, 1)))
MutLower == IF MutIdx = 0 THEN One ELSE mutGenome.genes[MutIdx]
MutUpper == IF MutIdx = GENE_COUNT - 1 THEN Rat(3, 1) ELSE mutGenome.genes[MutIdx + 2]

\* C25: mutate changes at most the gene at the drawn index; the new value lies
\* between the lower neighbour (1.0 at the first index) and the upper neighbour
\* (3.0 at the last index); nothing changes when the upper bound is not above
\* the lower one; and the tiers are those of the genes afterwards.
C25_MutateFrame ==
    mutResult # <<>> =>
        /\ \A i \in 1..GENE_COUNT :
              i # MutIdx + 1 => mutResult[1].genes[i] = mutGenome.genes[i]
        /\ RLe(MutLower, mutResult[1].genes[MutIdx + 1])
        /\ RLe(mutResult[1].genes[MutIdx + 1], MutUpper)
        /\ RLe(MutUpper, MutLower) => mutResult[1].genes = mutGenome.genes
        /\ mutResult[1].tiers = genesToTiers(mutResult[1].genes)

C25_Witness ==
    /\ mutResult # <<>>
    /\ MutIdx = 1
    /\ RLt(MutLower, MutUpper)
    /\ mutResult[1].genes # mutGenome.genes

----------------------------------------------------------------------------
(* The arguments of the pure functions.                                    *)

InputsKept ==
    /\ prices' = prices
    /\ config' = config
    /\ tiers' = tiers
    /\ gmTiers' = gmTiers
    /\ gmDrawdown' = gmDrawdown

\* C26: no step of aggregateDailyPrices, getMultiplier or runBacktest changes the
\* caller's price array, tier array (the order of its elements included) or
\* config.
C26_InputsNotModified == [][InputsKept]_vars

\* A finished backtest of several ticks a day with a tier list that is not in
\* ascending order of threshold, in which getMultiplier has been called.
C26_Witness ==
    /\ result # <<>>
    /\ tiers = ScenarioBTiers
    /\ SortTiers(tiers) # tiers
    /\ Len(trades) >= 1
    /\ Len(dailyPrices) < Len(prices)

----------------------------------------------------------------------------
(* The fitness of the strategies returned.                                 *)

\* The genome carries the roi of a backtest of its own tiers.
Evaluated(genome) ==
    /\ genome.fitness # NegInfinity
    /\ genome.fitness = runBacktestWith(dailyPrices, config, genome.tiers, evaluateOptions).roi

\* C27: every genome of topStrategies, bestGenome included, has been evaluated:
\* its fitness is the roi of its tiers and never the -Infinity of a child of the
\* last reproduction step.
C27_TopStrategiesEvaluated ==
    gaResult # <<>> =>
        /\ Evaluated(gaResult[1].bestGenome)
        /\ \A j \in 1..Len(gaResult[1].topStrategies) :
              Evaluated(gaResult[1].topStrategies[j])

----------------------------------------------------------------------------
(* The best fitness over the generations.                                  *)

\* C28: the best fitness of the ranked population does not decrease from one
\* generation to the next, and the fitness of the returned bestGenome is at
\* least the fitness any evaluation of the run has assigned.
C28_BestFitnessMonotone ==
    /\ \A g \in 1..(Len(rankedBest) - 1) : RLe(rankedBest[g], rankedBest[g + 1])
    /\ gaResult # <<>> => RLe(evaluatedBest, gaResult[1].bestGenome.fitness)

\* A finished run in which the second generation improved on the first and some
\* evaluated genome was worse than the best.
C28_Witness ==
    /\ gaResult # <<>>
    /\ Len(rankedBest) = GENERATIONS
    /\ RLt(rankedBest[1], rankedBest[2])
    /\ \E j \in 1..Len(gaResult[1].topStrategies) :
          RLt(gaResult[1].topStrategies[j].fitness, evaluatedBest)

----------------------------------------------------------------------------
(* RealTimeCalculator: the multiplier a render computes from the fetched   *)
(* price and all-time high.                                                *)

RAbs(x) == IF RLt(x, Zero) THEN RSub(Zero, x) ELSE x

\* [...tiers].sort((a, b) => Math.abs(b.threshold) - Math.abs(a.threshold)):
\* a stable sort, deepest threshold first.
RECURSIVE InsertByDepth(_, _)
InsertByDepth(t, sorted) ==
    IF sorted = <<>> THEN <<t>>
    ELSE IF RLt(RAbs(Head(sorted).threshold), RAbs(t.threshold))
         THEN <<t>> \o sorted
         ELSE <<Head(sorted)>> \o InsertByDepth(t, Tail(sorted))

RECURSIVE SortByDepthFrom(_, _)
SortByDepthFrom(ts, acc) ==
    IF ts = <<>> THEN acc
    ELSE SortByDepthFrom(Tail(ts), InsertByDepth(Head(ts), acc))

sortByDepthSkipped(ts) == ts
sortByDepth(ts) == SortByDepthFrom(ts, <<>>)

\* The loop over sortedTiers: the first tier with drawdown >= Math.abs(threshold),
\* <<>> when the loop ends without a break.
RECURSIVE FirstReached(_, _)
FirstReached(dd, sorted) ==
    IF sorted = <<>> THEN <<>>
    ELSE IF RLe(RAbs(Head(sorted).threshold), dd)
         THEN <<Head(sorted)>>
         ELSE FirstReached(dd, Tail(sorted))

\* tiers.findIndex(t => t.id === id), 0-based, -1 when no tier has the id.
RECURSIVE findIndex(_, _, _)
findIndex(ts, id, at) ==
    IF ts = <<>> THEN -1
    ELSE IF Head(ts).id = id THEN at
    ELSE findIndex(Tail(ts), id, at + 1)

\* The values the function body computes when data is not null.
realTimeCalculation(data, baseAmount, ts) ==
    LET price == Rat(data[1], 1)
        ath == Rat(data[2], 1)
        dd == IF RLt(Zero, ath) THEN RDiv(RSub(ath, price), ath) ELSE Zero
        found == FirstReached(dd, sortByDepth(ts))
        multiplier == IF found = <<>> THEN One ELSE found[1].multiplier
    IN  [drawdown |-> dd,
         multiplier |-> multiplier,
         activeTierIndex |-> IF found = <<>> THEN -1 ELSE findIndex(ts, found[1].id, 0),
         suggestedAmount |-> RMul(Rat(baseAmount, 1), multiplier)]

RtBaseAmount == 100
RtQuotes == {<<100, 100>>, <<85, 100>>, <<60, 100>>, <<50, 100>>, <<5, 100>>,
             <<120, 100>>, <<50, 0>>}

InitRealTime ==
    /\ BtAtRest
    /\ GaAtRest
    /\ gmDrawdown = Zero
    /\ gmTiers \in GmTierLists
    /\ gmResult = <<>>
    /\ mutGenome = <<>>
    /\ mutDraws = <<>>
    /\ mutResult = <<>>
    /\ rtData = <<>>
    /\ rtResult = <<>>
    /\ AppAtRest

\* handleCalculate, once fetchRealTimeData has resolved: setData({price, ath}).
HandleCalculate ==
    /\ rtData = <<>>
    /\ rtData' \in RtQuotes
    /\ UNCHANGED <<rtResult, mutVars, appVars, btVars, gmVars, gaVars>>

\* The render that follows: the function body with data set.
Render ==
    /\ rtData # <<>>
    /\ rtResult = <<>>
    /\ rtResult' = <<realTimeCalculation(rtData, RtBaseAmount, gmTiers)>>
    /\ UNCHANGED <<rtData, mutVars, appVars, btVars, gmVars, gaVars>>

NextRealTime == HandleCalculate \/ Render

SpecRealTime == InitRealTime /\ [][NextRealTime]_vars

\* Every threshold is at most 0 and the price is positive and at most the
\* all-time high.
RtInDomain ==
    /\ \A j \in 1..Len(gmTiers) : RLe(gmTiers[j].threshold, Zero)
    /\ 0 < rtData[1]
    /\ rtData[1] <= rtData[2]

\* C29: for thresholds that are all at most 0 and 0 < price <= ath, the
\* multiplier RealTimeCalculator computes is getMultiplier((price - ath) / ath,
\* tiers).
C29_RealTimeAgreesWithBacktest ==
    (rtResult # <<>> /\ RtInDomain) =>
        rtResult[1].multiplier =
            getMultiplier(RDiv(RSub(Rat(rtData[1], 1), Rat(rtData[2], 1)), Rat(rtData[2], 1)),
                          gmTiers)

\* A render on two tiers given shallowest first, with a drawdown that reaches
\* both, and a render on two tiers of one threshold and different multipliers.
C29_Witness ==
    /\ rtResult # <<>>
    /\ RtInDomain
    /\ Len(gmTiers) = 2
    /\ RLt(gmTiers[2].threshold, gmTiers[1].threshold)
    /\ gmTiers[1].multiplier # gmTiers[2].multiplier
    /\ rtResult[1].multiplier = gmTiers[2].multiplier

----------------------------------------------------------------------------
(* App.tsx: handleCoinChange and handleRunBacktest, each split at its      *)
(* await of fetchPriceHistory. A call that has not settled is in pending;  *)
(* the calls settle in any order.                                          *)

MaxRequests == 3
Coins == {"bitcoin", "ethereum"}

InitApp ==
    /\ BtAtRest
    /\ GmAtRest
    /\ GaAtRest
    /\ mutGenome = <<>>
    /\ mutDraws = <<>>
    /\ mutResult = <<>>
    /\ rtData = <<>>
    /\ rtResult = <<>>
    /\ AppAtRest

appFrame == <<btVars, gmVars, gaVars, mutVars, rtVars>>

Request(kind, coin) == [id |-> issued + 1, kind |-> kind, coin |-> coin]

\* ControlPanel's handleCoinChange (setCoinId, onCoinChange) and lines 29-38 of
\* App's handleCoinChange, up to the await.
HandleCoinChange(newCoinId) ==
    /\ issued < MaxRequests
    /\ coinId' = newCoinId
    /\ isLoadingChart' = TRUE
    /\ error' = FALSE
    /\ resultState' = <<>>
    /\ pending' = pending \cup {Request("chart", newCoinId)}
    /\ issued' = issued + 1
    /\ UNCHANGED <<isLoading, pricesState, rejected, appFrame>>

\* ControlPanel's handleSubmit, whose button is disabled while isLoading, and
\* lines 54-62 of handleRunBacktest, up to the await.
HandleRunBacktest ==
    /\ issued < MaxRequests
    /\ ~isLoading
    /\ isLoading' = TRUE
    /\ error' = FALSE
    /\ pending' = pending \cup {Request("backtest", coinId)}
    /\ issued' = issued + 1
    /\ UNCHANGED <<isLoadingChart, pricesState, resultState, coinId, rejected, appFrame>>

\* Lines 39 and 46: the chart request resolves.
ChartResolves(r) ==
    /\ r.kind = "chart"
    /\ pricesState' = <<[coin |-> r.coin, range |-> "year"]>>
    /\ isLoadingChart' = FALSE
    /\ pending' = pending \ {r}
    /\ UNCHANGED <<isLoading, error, resultState, coinId, issued, rejected, appFrame>>

\* Lines 40-46: the chart request throws.
ChartRejects(r) ==
    /\ r.kind = "chart"
    /\ error' = TRUE
    /\ pricesState' = <<>>
    /\ isLoadingChart' = FALSE
    /\ pending' = pending \ {r}
    /\ rejected' = TRUE
    /\ UNCHANGED <<isLoading, resultState, coinId, issued, appFrame>>

\* Lines 63-67 and 74: the backtest request resolves.
BacktestResolves(r) ==
    /\ r.kind = "backtest"
    /\ pricesState' = <<[coin |-> r.coin, range |-> "config"]>>
    /\ resultState' = <<r.coin>>
    /\ isLoading' = FALSE
    /\ pending' = pending \ {r}
    /\ UNCHANGED <<isLoadingChart, error, coinId, issued, rejected, appFrame>>

\* Lines 69-74: the backtest request throws.
BacktestRejects(r) ==
    /\ r.kind = "backtest"
    /\ error' = TRUE
    /\ isLoading' = FALSE
    /\ pending' = pending \ {r}
    /\ rejected' = TRUE
    /\ UNCHANGED <<isLoadingChart, pricesState, resultState, coinId, issued, appFrame>>

\* Lines 81-83.
dismissError ==
    /\ error
    /\ error' = FALSE
    /\ UNCHANGED <<isLoading, isLoadingChart, pricesState, resultState, coinId, pending,
                   issued, rejected, appFrame>>

NextApp ==
    \/ \E newCoinId \in Coins : HandleCoinChange(newCoinId)
    \/ HandleRunBacktest
    \/ \E r \in pending : ChartResolves(r)
    \/ \E r \in pending : ChartRejects(r)
    \/ \E r \in pending : BacktestResolves(r)
    \/ \E r \in pending : BacktestRejects(r)
    \/ dismissError

SpecApp == InitApp /\ [][NextApp]_vars

\* Every request made has settled, and none has thrown.
AllSettled == issued > 0 /\ pending = {} /\ ~rejected

\* C30: once every request has settled, prices holds the data of the coin of the
\* latest request (the selected coin) and isLoading and isLoadingChart are false,
\* whatever the order of the responses.
C30_LatestRequestWins ==
    AllSettled =>
        /\ pricesState # <<>>
        /\ pricesState[1].coin = coinId
        /\ ~isLoading
        /\ ~isLoadingChart

====
